---- MODULE Spec2Model ----
(***************************************************************************)
(* JournalEntries concept (AI-augmented): daily entries keyed by           *)
(* (user, calendar date) and the weekly synthesis pipeline                 *)
(* summarizeWeek = aggregate -> prompt -> await llm.executeLLM -> parse -> *)
(* V1 -> V2 -> V3 -> upsert.                                               *)
(*                                                                         *)
(* Time.  A Date is an instant, counted in ticks; a UTC calendar day has   *)
(* TicksPerDay ticks, so an instant is day * TicksPerDay + time-of-day.    *)
(* toISODate (UTC date string) is the day number of the instant; the day   *)
(* number stands for the string YYYY-MM-DD.  setDate(getDate() + n) moves  *)
(* an instant by n whole days (no daylight-saving change in the window).   *)
(*                                                                         *)
(* Text.  A string is a sequence of atoms.  An atom is a maximal piece of  *)
(* the string that the regular expressions of the validators treat as a    *)
(* unit: one whitespace character, a plain word, a URL, a YYYY-MM-DD       *)
(* token, an imperative verb of the vocabulary, a time-box token.          *)
(***************************************************************************)
EXTENDS Integers, Sequences, FiniteSets, TLC

VARIABLES entries, weeklySummaries, nextId, run, ret

vars == <<entries, weeklySummaries, nextId, run, ret>>

----------------------------------------------------------------------------
(* Bounds *)

MaxTod == 1          \* times of day are 0..MaxTod
MaxId == 1           \* at most MaxId entries are ever created
MaxClock == 0        \* readings of the wall clock are 0..MaxClock

TicksPerDay == MaxTod + 1
Tods == 0..MaxTod
Users == {"u1", "u2"}
Procs == {"p1", "p2"}
PromptVariants == {"base", "compressed", "strict", "actionable"}
ValidRatings == {-2, -1, 0, 1, 2}

Date(day, tod) == day * TicksPerDay + tod

----------------------------------------------------------------------------
(* Dates and keys *)

toISODate(date) == date \div TicksPerDay

parseISODate(day) == day * TicksPerDay

addDays(date, n) == date + n * TicksPerDay

getDateKeyByInstant(userId, date) == <<userId, date>>

getDateKey(userId, date) == <<userId, toISODate(date)>>

getWeeklySummaryKeyByInstant(userId, weekStart) == <<userId, weekStart>>

getWeeklySummaryKeyByUser(userId, weekStart) == <<userId, 0>>

getWeeklySummaryKey(userId, weekStart) == <<userId, toISODate(weekStart)>>

getWeeklySummary(userId, weekStart) ==
    LET k == getWeeklySummaryKey(userId, weekStart)
    IN IF k \in DOMAIN weeklySummaries THEN {weeklySummaries[k]} ELSE {}

MapSet(map, k, v) == [x \in DOMAIN map \cup {k} |-> IF x = k THEN v ELSE map[x]]

MapDelete(map, k) == [x \in DOMAIN map \ {k} |-> map[x]]

MapValues(map) == {map[k] : k \in DOMAIN map}

----------------------------------------------------------------------------
(* Strings of the external response *)

Atom(k, v) == [k |-> k, v |-> v]

SP == Atom("sp", 0)

Word(n) == Atom("word", n)

IsSpace(a) == a.k = "sp"

RECURSIVE TrimLeft(_)
TrimLeft(s) == IF s # <<>> /\ IsSpace(Head(s)) THEN TrimLeft(Tail(s)) ELSE s

RECURSIVE TrimRight(_)
TrimRight(s) ==
    IF s # <<>> /\ IsSpace(s[Len(s)]) THEN TrimRight(SubSeq(s, 1, Len(s) - 1)) ELSE s

Trim(s) == TrimRight(TrimLeft(s))

\* s.split(/\s+/).length: the pieces between maximal runs of whitespace
SplitLength(s) ==
    IF s = <<>> THEN 1
    ELSE 1 + Cardinality({i \in 1..Len(s) :
                            IsSpace(s[i]) /\ (i = 1 \/ ~IsSpace(s[i - 1]))})

Concat3(s, sep, f) == s \o <<sep>> \o f

----------------------------------------------------------------------------
(* JSON values of the response object *)

Str(s) == [t |-> "string", s |-> s]

Num(n) == [t |-> (IF n = 0 THEN "zero" ELSE "number"), s |-> <<>>]

Null == [t |-> "null", s |-> <<>>]

Undefined == [t |-> "undefined", s |-> <<>>]

Truthy(v) ==
    CASE v.t = "string" -> Len(v.s) > 0
      [] v.t = "number" -> TRUE
      [] OTHER -> FALSE

TypeofString(v) == v.t = "string"

Prop(obj, key) == IF key \in DOMAIN obj THEN obj[key] ELSE Undefined

\* A response text: without any {...} substring, with one that JSON.parse
\* rejects, or with one that parses to the object obj.
NoJsonResponse == [kind |-> "nojson", obj |-> <<>>]

BadJsonResponse == [kind |-> "badjson", obj |-> <<>>]

ObjResponse(obj) == [kind |-> "object", obj |-> obj]

----------------------------------------------------------------------------
(* parseLLMResponse: an error name, or the object {summary, focus} *)

ParseFailed(err) ==
    [ok |-> FALSE, err |-> err, result |-> [summary |-> <<>>, focus |-> <<>>]]

ParseReturn(response) ==
    [ok |-> TRUE, err |-> "",
     result |-> [summary |-> response.summary.s, focus |-> response.focus.s]]

parseLLMResponseUntyped(responseText) ==
    IF responseText.kind = "nojson" THEN ParseFailed("NoJson")
    ELSE IF responseText.kind = "badjson" THEN ParseFailed("SyntaxError")
    ELSE LET response == responseText.obj
             summary == Prop(response, "summary")
             focus == Prop(response, "focus")
         IN IF ~Truthy(summary) \/ ~Truthy(focus) THEN ParseFailed("Missing")
            ELSE ParseReturn([summary |-> summary, focus |-> focus])

parseLLMResponse(responseText) ==
    IF responseText.kind = "nojson" THEN ParseFailed("NoJson")
    ELSE IF responseText.kind = "badjson" THEN ParseFailed("SyntaxError")
    ELSE LET response == responseText.obj
             summary == Prop(response, "summary")
             focus == Prop(response, "focus")
         IN IF ~Truthy(summary) \/ ~Truthy(focus) THEN ParseFailed("Missing")
            ELSE IF ~TypeofString(summary) \/ ~TypeofString(focus)
                 THEN ParseFailed("NotString")
            ELSE ParseReturn([summary |-> summary, focus |-> focus])

----------------------------------------------------------------------------
(* The validators: each returns Pass or the failure it throws *)

MaxSummaryWords == 120
MaxFocusWords == 60

Pass == [v |-> "ok", why |-> ""]

Fail(v, why) == [v |-> v, why |-> why]

AllowedKeys == {"summary", "focus"}

validateV1_ShapeAndLimitsStrictlyBelow(result) ==
    IF Len(result.summary) = 0 \/ Len(Trim(result.summary)) = 0
    THEN Fail("V1", "summary empty")
    ELSE IF Len(result.focus) = 0 \/ Len(Trim(result.focus)) = 0
         THEN Fail("V1", "focus empty")
    ELSE IF SplitLength(Trim(result.summary)) >= MaxSummaryWords
         THEN Fail("V1", "summary words")
    ELSE IF SplitLength(Trim(result.focus)) >= MaxFocusWords
         THEN Fail("V1", "focus words")
    ELSE Pass

validateV1_ShapeAndLimits(result) ==
    LET extraKeys == DOMAIN result \ AllowedKeys
    IN IF extraKeys # {} THEN Fail("V1", "extra keys")
       ELSE IF Len(result.summary) = 0 \/ Len(Trim(result.summary)) = 0
            THEN Fail("V1", "summary empty")
       ELSE IF Len(result.focus) = 0 \/ Len(Trim(result.focus)) = 0
            THEN Fail("V1", "focus empty")
       ELSE IF SplitLength(Trim(result.summary)) > MaxSummaryWords
            THEN Fail("V1", "summary words")
       ELSE IF SplitLength(Trim(result.focus)) > MaxFocusWords
            THEN Fail("V1", "focus words")
       ELSE Pass

\* /https?:\/\//i
UrlPatternTest(text) == \E i \in 1..Len(text) : text[i].k = "url"

\* text.match(/\b\d{4}-\d{2}-\d{2}\b/g), in order of appearance
IsoDateMatches(text) ==
    LET tokens == SelectSeq(text, LAMBDA a : a.k = "date")
    IN [i \in 1..Len(tokens) |-> tokens[i].v]

validateV2_WindowAndLinksFocusOnly(result, weekStart) ==
    LET weekEnd == addDays(weekStart, 6)
        matches == IsoDateMatches(result.focus)
    IN IF UrlPatternTest(result.focus) THEN Fail("V2", "url")
       ELSE IF \E i \in 1..Len(matches) :
                  LET date == parseISODate(matches[i])
                  IN date < weekStart \/ date > weekEnd
            THEN Fail("V2", "date outside window")
       ELSE Pass

validateV2_WindowAndLinks(result, weekStart) ==
    LET weekEnd == addDays(weekStart, 6)
        combinedText == Concat3(result.summary, SP, result.focus)
        matches == IsoDateMatches(combinedText)
    IN IF UrlPatternTest(combinedText) THEN Fail("V2", "url")
       ELSE IF \E i \in 1..Len(matches) :
                  LET date == parseISODate(matches[i])
                  IN date < weekStart \/ date > weekEnd
            THEN Fail("V2", "date outside window")
       ELSE Pass

\* new RegExp(`\\b${verb}\\b`, 'i') for some verb of the vocabulary
HasImperative(focus) == \E i \in 1..Len(focus) : focus[i].k = "verb"

\* /\b\d+\s?(min|minutes?|hours?)\b|\bdaily\b|\bweekly\b|\bmorning\b|\bevening\b/i
TimeboxPatternTest(focus) == \E i \in 1..Len(focus) : focus[i].k = "timebox"

validateV3_ActionabilityAnywhere(result) ==
    LET text == Concat3(result.summary, SP, result.focus)
    IN IF ~HasImperative(text) THEN Fail("V3", "no imperative verb")
       ELSE IF ~TimeboxPatternTest(text) THEN Fail("V3", "no timebox")
       ELSE Pass

validateV3_Actionability(result) ==
    IF ~HasImperative(result.focus) THEN Fail("V3", "no imperative verb")
    ELSE IF ~TimeboxPatternTest(result.focus) THEN Fail("V3", "no timebox")
    ELSE Pass

validateLLMOutputWithoutV3(result, weekStart) ==
    LET r1 == validateV1_ShapeAndLimits(result)
        r2 == validateV2_WindowAndLinks(result, weekStart)
    IN IF r1 # Pass THEN [err |-> r1, ran |-> <<"V1">>]
       ELSE [err |-> r2, ran |-> <<"V1", "V2">>]

validateLLMOutputV2First(result, weekStart) ==
    LET r1 == validateV1_ShapeAndLimits(result)
        r2 == validateV2_WindowAndLinks(result, weekStart)
        r3 == validateV3_Actionability(result)
    IN IF r2 # Pass THEN [err |-> r2, ran |-> <<"V2">>]
       ELSE IF r1 # Pass THEN [err |-> r1, ran |-> <<"V2", "V1">>]
       ELSE [err |-> r3, ran |-> <<"V2", "V1", "V3">>]

validateLLMOutputOncePerText(result, weekStart) ==
    LET r1 == validateV1_ShapeAndLimits(result)
        r2 == validateV2_WindowAndLinks(result, weekStart)
        r3 == validateV3_Actionability(result)
    IN IF \E w \in MapValues(weeklySummaries) :
             w.summary = result.summary /\ w.focus = result.focus
       THEN [err |-> Fail("V1", "seen before"), ran |-> <<"V1">>]
       ELSE IF r1 # Pass THEN [err |-> r1, ran |-> <<"V1">>]
       ELSE IF r2 # Pass THEN [err |-> r2, ran |-> <<"V1", "V2">>]
       ELSE [err |-> r3, ran |-> <<"V1", "V2", "V3">>]

\* The chain: the failure thrown (or Pass) and the validators that ran
validateLLMOutput(result, weekStart) ==
    LET r1 == validateV1_ShapeAndLimits(result)
        r2 == validateV2_WindowAndLinks(result, weekStart)
        r3 == validateV3_Actionability(result)
    IN IF r1 # Pass THEN [err |-> r1, ran |-> <<"V1">>]
       ELSE IF r2 # Pass THEN [err |-> r2, ran |-> <<"V1", "V2">>]
       ELSE [err |-> r3, ran |-> <<"V1", "V2", "V3">>]

----------------------------------------------------------------------------
(* Aggregates *)

InRangeOfAnyUser(e, userId, startDate, endDate) ==
    e.date >= startDate /\ e.date <= endDate

InRange(e, userId, startDate, endDate) ==
    e.userId = userId /\ e.date >= startDate /\ e.date <= endDate

RECURSIVE SortByInsertion(_)
SortByInsertion(S) ==
    IF S = {} THEN <<>>
    ELSE LET first == CHOOSE e \in S : \A f \in S : e.id[2] <= f.id[2]
         IN <<first>> \o SortByInsertion(S \ {first})

RECURSIVE SortByDate(_)
SortByDate(S) ==
    IF S = {} THEN <<>>
    ELSE LET first == CHOOSE e \in S : \A f \in S : e.date <= f.date
         IN <<first>> \o SortByDate(S \ {first})

getEntriesInRange(userId, startDate, endDate) ==
    SortByDate({e \in MapValues(entries) : InRange(e, userId, startDate, endDate)})

RECURSIVE SumRatings(_)
SumRatings(es) == IF es = <<>> THEN 0 ELSE Head(es).rating + SumRatings(Tail(es))

RoundDivTruncating(num, den) == num \div den

\* Math.round(x): the integer nearest to x, halves upwards
RoundDiv(num, den) == (2 * num + den) \div (2 * den)

\* avgRating in hundredths
AvgRating(weekEntries) ==
    IF Len(weekEntries) > 0
    THEN RoundDiv(100 * SumRatings(weekEntries), Len(weekEntries))
    ELSE 0

RECURSIVE MissingFrom(_, _, _)
MissingFrom(i, weekStart, entryDates) ==
    IF i >= 7 THEN <<>>
    ELSE LET isoDate == toISODate(addDays(weekStart, i))
         IN (IF isoDate \notin entryDates THEN <<isoDate>> ELSE <<>>)
            \o MissingFrom(i + 1, weekStart, entryDates)

MissingDays(weekEntries, weekStart) ==
    MissingFrom(0, weekStart,
                {toISODate(weekEntries[i].date) : i \in 1..Len(weekEntries)})

SourceEntryIds(weekEntries) == [i \in 1..Len(weekEntries) |-> weekEntries[i].id]

VariantAddendum(variant) ==
    CASE variant = "compressed" -> "aim for 80 words in summary and 40 words in focus"
      [] variant = "strict" -> "no external links or dates outside the target week"
      [] variant = "actionable" -> "imperative verb and timebox"
      [] OTHER -> ""

createWeeklySummaryPrompt(weekEntries, entryCount, avgRating, missingDays, weekStart, variant) ==
    [entriesText |-> [i \in 1..Len(weekEntries) |->
                        [date |-> toISODate(weekEntries[i].date),
                         gratitude |-> weekEntries[i].gratitude,
                         didToday |-> weekEntries[i].didToday,
                         proudOf |-> weekEntries[i].proudOf,
                         tomorrowPlan |-> weekEntries[i].tomorrowPlan,
                         rating |-> weekEntries[i].rating]],
     entryCount |-> entryCount,
     avgRating |-> avgRating,
     missingDays |-> missingDays,
     weekWindow |-> <<toISODate(weekStart), toISODate(addDays(weekStart, 6))>>,
     addendum |-> VariantAddendum(variant)]

----------------------------------------------------------------------------
(* State *)
(*   entries, weeklySummaries, nextId: the fields of JournalEntries.       *)
(*   run[p]: the summarizeWeek invocation p, suspended at the await or not *)
(*           running.                                                      *)
(*   ret: the call that completed last, with what it returned or threw;    *)
(*        for summarizeWeek also the response it was resumed with and the  *)
(*        text of the summary its key held just before it completed.       *)

EmptyMap == [k \in {} |-> 0]

EntryId(n) == <<"entry", n>>

IdleRun ==
    [pc |-> "idle", userId |-> "", weekStart |-> 0, weekEnd |-> 0, variant |-> "",
     entryCount |-> 0, avgRating |-> 0, missingDays |-> <<>>,
     sourceEntryIds |-> <<>>, prompt |-> {}, calls |-> 0, trace |-> <<>>,
     outcome |-> Pass, returned |-> {}]

StoredText(s) == [summary |-> s.summary, focus |-> s.focus]

Completed(op, call, response, before) ==
    [op |-> op, call |-> call, response |-> response,
     before |-> {StoredText(w) : w \in before}]

Returned(op) == Completed(op, IdleRun, {}, {})

Threw(op, why) ==
    Completed(op, [IdleRun EXCEPT !.outcome = Fail("Error", why)], {}, {})

Init ==
    /\ entries = EmptyMap
    /\ weeklySummaries = EmptyMap
    /\ nextId = 1
    /\ run = [p \in Procs |-> IdleRun]
    /\ ret = Returned("new")

----------------------------------------------------------------------------
(* Entry operations.  A call that throws leaves the state as it was. *)

findEntryById(entryId) == {e \in MapValues(entries) : e.id = entryId}

\* the id is the number of stored entries plus one
createEntryNumberingByCount(userId, date, gratitude, didToday, proudOf, tomorrowPlan, rating) ==
    LET dateKey == getDateKey(userId, date)
        entry == [id |-> EntryId(Cardinality(DOMAIN entries) + 1), userId |-> userId,
                  date |-> date, gratitude |-> gratitude, didToday |-> didToday,
                  proudOf |-> proudOf, tomorrowPlan |-> tomorrowPlan,
                  rating |-> rating]
    IN /\ IF rating \notin ValidRatings
          THEN /\ ret' = Threw("createEntry", "rating")
               /\ UNCHANGED <<entries, nextId>>
          ELSE IF dateKey \in DOMAIN entries
          THEN /\ ret' = Threw("createEntry", "exists")
               /\ UNCHANGED <<entries, nextId>>
          ELSE /\ entries' = MapSet(entries, dateKey, entry)
               /\ nextId' = nextId + 1
               /\ ret' = Returned("createEntry")
       /\ UNCHANGED <<weeklySummaries, run>>

createEntry(userId, date, gratitude, didToday, proudOf, tomorrowPlan, rating) ==
    LET dateKey == getDateKey(userId, date)
        entry == [id |-> EntryId(nextId), userId |-> userId, date |-> date,
                  gratitude |-> gratitude, didToday |-> didToday,
                  proudOf |-> proudOf, tomorrowPlan |-> tomorrowPlan,
                  rating |-> rating]
    IN /\ IF rating \notin ValidRatings
          THEN /\ ret' = Threw("createEntry", "rating")
               /\ UNCHANGED <<entries, nextId>>
          ELSE IF dateKey \in DOMAIN entries
          THEN /\ ret' = Threw("createEntry", "exists")
               /\ UNCHANGED <<entries, nextId>>
          ELSE /\ entries' = MapSet(entries, dateKey, entry)
               /\ nextId' = nextId + 1
               /\ ret' = Returned("createEntry")
       /\ UNCHANGED <<weeklySummaries, run>>

ApplyUpdates(entry, updates) ==
    [f \in DOMAIN entry |-> IF f \in DOMAIN updates THEN updates[f] ELSE entry[f]]

editEntryApplyingFirst(entryId, updates) ==
    LET found == findEntryById(entryId)
    IN /\ IF found = {}
          THEN /\ ret' = Threw("editEntry", "not found")
               /\ UNCHANGED entries
          ELSE LET entry == CHOOSE e \in found : TRUE
                   applied == ApplyUpdates(entry, updates)
               IN IF applied.rating \notin ValidRatings
                  THEN /\ entries' = MapSet(entries,
                                            getDateKey(entry.userId, entry.date),
                                            [applied EXCEPT !.rating = entry.rating])
                       /\ ret' = Threw("editEntry", "rating")
                  ELSE /\ entries' = MapSet(entries,
                                            getDateKey(entry.userId, entry.date),
                                            applied)
                       /\ ret' = Returned("editEntry")
       /\ UNCHANGED <<weeklySummaries, nextId, run>>

editEntry(entryId, updates) ==
    LET found == findEntryById(entryId)
    IN /\ IF found = {}
          THEN /\ ret' = Threw("editEntry", "not found")
               /\ UNCHANGED entries
          ELSE IF "rating" \in DOMAIN updates /\ updates.rating \notin ValidRatings
          THEN /\ ret' = Threw("editEntry", "rating")
               /\ UNCHANGED entries
          ELSE LET entry == CHOOSE e \in found : TRUE
               IN /\ entries' = MapSet(entries, getDateKey(entry.userId, entry.date),
                                       ApplyUpdates(entry, updates))
                  /\ ret' = Returned("editEntry")
       /\ UNCHANGED <<weeklySummaries, nextId, run>>

\* summaries that cite the deleted entry go with it
deleteEntryCascading(entryId) ==
    LET found == findEntryById(entryId)
    IN /\ IF found = {}
          THEN /\ ret' = Threw("deleteEntry", "not found")
               /\ UNCHANGED <<entries, weeklySummaries>>
          ELSE LET entry == CHOOSE e \in found : TRUE
                   kept == {k \in DOMAIN weeklySummaries :
                              \A i \in 1..Len(weeklySummaries[k].sourceEntryIds) :
                                 weeklySummaries[k].sourceEntryIds[i] # entryId}
               IN /\ entries' = MapDelete(entries,
                                          getDateKey(entry.userId, entry.date))
                  /\ weeklySummaries' = [k \in kept |-> weeklySummaries[k]]
                  /\ ret' = Returned("deleteEntry")
       /\ UNCHANGED <<nextId, run>>

\* the key is made from the instant of the entry
deleteEntryByInstant(entryId) ==
    LET found == findEntryById(entryId)
    IN /\ IF found = {}
          THEN /\ ret' = Threw("deleteEntry", "not found")
               /\ UNCHANGED entries
          ELSE LET entry == CHOOSE e \in found : TRUE
               IN /\ entries' = MapDelete(entries,
                                          getDateKeyByInstant(entry.userId, entry.date))
                  /\ ret' = Returned("deleteEntry")
       /\ UNCHANGED <<weeklySummaries, nextId, run>>

deleteEntry(entryId) ==
    LET found == findEntryById(entryId)
    IN /\ IF found = {}
          THEN /\ ret' = Threw("deleteEntry", "not found")
               /\ UNCHANGED entries
          ELSE LET entry == CHOOSE e \in found : TRUE
               IN /\ entries' = MapDelete(entries,
                                          getDateKey(entry.userId, entry.date))
                  /\ ret' = Returned("deleteEntry")
       /\ UNCHANGED <<weeklySummaries, nextId, run>>

----------------------------------------------------------------------------
(* summarizeWeek: the part before the await, and its continuations *)

Thrown(r, v, why, steps) ==
    [r EXCEPT !.pc = "done", !.outcome = Fail(v, why), !.trace = @ \o steps]

summarizeWeekStartCallingFirst(p, userId, weekStart, promptVariant) ==
    LET weekEnd == addDays(weekStart, 6)
        weekEntries == getEntriesInRange(userId, weekStart, weekEnd)
        called == [IdleRun EXCEPT !.userId = userId, !.weekStart = weekStart,
                                  !.weekEnd = weekEnd, !.variant = promptVariant,
                                  !.calls = 1, !.trace = <<"call">>]
    IN /\ run[p].pc = "idle"
       /\ IF Len(weekEntries) = 0
          THEN /\ ret' = Completed("summarizeWeek",
                                   Thrown(called, "NoEntries", "", <<>>), {},
                                   getWeeklySummary(userId, weekStart))
               /\ UNCHANGED run
          ELSE /\ run' = [run EXCEPT ![p] =
                            [called EXCEPT !.pc = "awaiting",
                                           !.entryCount = Len(weekEntries),
                                           !.avgRating = AvgRating(weekEntries),
                                           !.missingDays =
                                               MissingDays(weekEntries, weekStart),
                                           !.sourceEntryIds =
                                               SourceEntryIds(weekEntries)]]
               /\ UNCHANGED ret
       /\ UNCHANGED <<entries, weeklySummaries, nextId>>

\* lines 136-173: up to the call of llm.executeLLM, where the run suspends
summarizeWeekStart(p, userId, weekStart, promptVariant) ==
    LET weekEnd == addDays(weekStart, 6)
        weekEntries == getEntriesInRange(userId, weekStart, weekEnd)
        entryCount == Len(weekEntries)
        avgRating == AvgRating(weekEntries)
        missingDays == MissingDays(weekEntries, weekStart)
        sourceEntryIds == SourceEntryIds(weekEntries)
        prompt == createWeeklySummaryPrompt(weekEntries, entryCount, avgRating,
                                            missingDays, weekStart, promptVariant)
        called == [IdleRun EXCEPT !.userId = userId, !.weekStart = weekStart,
                                  !.weekEnd = weekEnd, !.variant = promptVariant]
    IN /\ run[p].pc = "idle"
       /\ IF Len(weekEntries) = 0
          THEN /\ ret' = Completed("summarizeWeek",
                                   Thrown(called, "NoEntries", "", <<>>), {},
                                   getWeeklySummary(userId, weekStart))
               /\ UNCHANGED run
          ELSE /\ run' = [run EXCEPT ![p] =
                            [called EXCEPT !.pc = "awaiting",
                                           !.entryCount = entryCount,
                                           !.avgRating = avgRating,
                                           !.missingDays = missingDays,
                                           !.sourceEntryIds = sourceEntryIds,
                                           !.prompt = {prompt},
                                           !.calls = @ + 1,
                                           !.trace = <<"aggregate", "prompt", "call">>]]
               /\ UNCHANGED ret
       /\ UNCHANGED <<entries, weeklySummaries, nextId>>

NewWeeklySummaryAtUpsert(r, llmResult, now) ==
    LET weekEntries == getEntriesInRange(r.userId, r.weekStart, r.weekEnd)
    IN [userId |-> r.userId, weekStart |-> r.weekStart, weekEnd |-> r.weekEnd,
        entryCount |-> Len(weekEntries), avgRating |-> AvgRating(weekEntries),
        missingDays |-> MissingDays(weekEntries, r.weekStart),
        summary |-> llmResult.summary, focus |-> llmResult.focus,
        sourceEntryIds |-> SourceEntryIds(weekEntries), generatedAt |-> now]

NewWeeklySummaryRecounting(r, llmResult, now) ==
    LET weekEntries == getEntriesInRange(r.userId, r.weekStart, r.weekEnd)
    IN [userId |-> r.userId, weekStart |-> r.weekStart, weekEnd |-> r.weekEnd,
        entryCount |-> Len(weekEntries), avgRating |-> r.avgRating,
        missingDays |-> r.missingDays, summary |-> llmResult.summary,
        focus |-> llmResult.focus, sourceEntryIds |-> SourceEntryIds(weekEntries),
        generatedAt |-> now]

\* lines 187-198
NewWeeklySummary(r, llmResult, now) ==
    [userId |-> r.userId, weekStart |-> r.weekStart, weekEnd |-> r.weekEnd,
     entryCount |-> r.entryCount, avgRating |-> r.avgRating,
     missingDays |-> r.missingDays, summary |-> llmResult.summary,
     focus |-> llmResult.focus, sourceEntryIds |-> r.sourceEntryIds,
     generatedAt |-> now]

StoreAfterUnvalidated(store, parsed, checked, summaryKey, weeklySummary) ==
    IF parsed.ok THEN MapSet(store, summaryKey, weeklySummary) ELSE store

StoreAfterKeepingAggregates(store, parsed, checked, summaryKey, weeklySummary) ==
    IF parsed.ok /\ checked.err = Pass
    THEN MapSet(store, summaryKey,
                IF summaryKey \in DOMAIN store
                THEN [store[summaryKey] EXCEPT !.summary = weeklySummary.summary,
                                              !.focus = weeklySummary.focus]
                ELSE weeklySummary)
    ELSE store

\* the store after the continuation: written only when nothing was thrown
StoreAfter(store, parsed, checked, summaryKey, weeklySummary) ==
    IF parsed.ok /\ checked.err = Pass
    THEN MapSet(store, summaryKey, weeklySummary)
    ELSE store

\* lines 175-203: the promise of executeLLM resolved with responseText
summarizeWeekResumeV3IfAsked(p, responseText, now) ==
    LET r == run[p]
        parsed == parseLLMResponse(responseText)
        checked == IF r.variant = "actionable"
                   THEN validateLLMOutput(parsed.result, r.weekStart)
                   ELSE validateLLMOutputWithoutV3(parsed.result, r.weekStart)
        summaryKey == getWeeklySummaryKey(r.userId, r.weekStart)
        weeklySummary == NewWeeklySummary(r, parsed.result, now)
    IN /\ r.pc = "awaiting"
       /\ weeklySummaries' =
             StoreAfter(weeklySummaries, parsed, checked, summaryKey, weeklySummary)
       /\ ret' = Completed("summarizeWeek",
             IF ~parsed.ok THEN Thrown(r, "Parse", parsed.err, <<"parse">>)
             ELSE IF checked.err # Pass
                  THEN Thrown(r, checked.err.v, checked.err.why,
                              <<"parse">> \o checked.ran)
             ELSE [r EXCEPT !.pc = "done", !.outcome = Pass,
                            !.trace = @ \o <<"parse">> \o checked.ran \o <<"upsert">>,
                            !.returned = {weeklySummary}],
             {responseText}, getWeeklySummary(r.userId, r.weekStart))
       /\ run' = [run EXCEPT ![p] = IdleRun]
       /\ UNCHANGED <<entries, nextId>>

summarizeWeekResume(p, responseText, now) ==
    LET r == run[p]
        parsed == parseLLMResponse(responseText)
        checked == validateLLMOutput(parsed.result, r.weekStart)
        summaryKey == getWeeklySummaryKey(r.userId, r.weekStart)
        weeklySummary == NewWeeklySummary(r, parsed.result, now)
    IN /\ r.pc = "awaiting"
       /\ weeklySummaries' =
             StoreAfter(weeklySummaries, parsed, checked, summaryKey, weeklySummary)
       /\ ret' = Completed("summarizeWeek",
             IF ~parsed.ok THEN Thrown(r, "Parse", parsed.err, <<"parse">>)
             ELSE IF checked.err # Pass
                  THEN Thrown(r, checked.err.v, checked.err.why,
                              <<"parse">> \o checked.ran)
             ELSE [r EXCEPT !.pc = "done", !.outcome = Pass,
                            !.trace = @ \o <<"parse">> \o checked.ran \o <<"upsert">>,
                            !.returned = {weeklySummary}],
             {responseText}, getWeeklySummary(r.userId, r.weekStart))
       /\ run' = [run EXCEPT ![p] = IdleRun]
       /\ UNCHANGED <<entries, nextId>>

summarizeWeekRejectRetrying(p) ==
    /\ run[p].pc = "awaiting"
    /\ run' = [run EXCEPT ![p].calls = @ + 1, ![p].trace = @ \o <<"call">>]
    /\ UNCHANGED <<entries, weeklySummaries, nextId, ret>>

\* the promise of executeLLM rejected: the await throws
summarizeWeekReject(p) ==
    /\ run[p].pc = "awaiting"
    /\ ret' = Completed("summarizeWeek", Thrown(run[p], "Transport", "", <<>>),
                        {}, getWeeklySummary(run[p].userId, run[p].weekStart))
    /\ run' = [run EXCEPT ![p] = IdleRun]
    /\ UNCHANGED <<entries, weeklySummaries, nextId>>

----------------------------------------------------------------------------
(* Inputs *)

FirstDay == 1        \* the calendar day of the weekStart arguments

\* the first and the last instant of that day
WeekStarts == {Date(FirstDay, tod) : tod \in {0, MaxTod}}

\* the last day of the window and the day after it
EntryDays == {FirstDay + 6, FirstDay + 7}

EntryDates == {Date(day, 0) : day \in EntryDays}

RatingInputs == {2, 3}

EditInputs == {[rating |-> -1], [gratitude |-> "g2", rating |-> 5]}

VariantInputs == {"base"}

Verb(n) == Atom("verb", n)

Timebox(n) == Atom("timebox", n)

Url(n) == Atom("url", n)

IsoDate(day) == Atom("date", day)

GoodFocus == <<Verb(1), SP, Word(1), SP, Timebox(1)>>

GoodText1 == [summary |-> Str(<<Word(1), SP, Word(2)>>), focus |-> Str(GoodFocus)]

GoodText2 ==
    [summary |-> Str(<<Word(3), SP, IsoDate(FirstDay + 1)>>), focus |-> Str(GoodFocus)]

\* One response for each way the continuation can end
Responses ==
    {NoJsonResponse,
     ObjResponse([summary |-> Str(<<Word(1)>>)]),
     ObjResponse(GoodText1),
     ObjResponse(GoodText2),
     ObjResponse([summary |-> Str(<<Word(1)>>), focus |-> Str(GoodFocus),
                  notes |-> Str(<<Word(9)>>)]),
     ObjResponse([summary |-> Str(<<SP, SP>>), focus |-> Str(<<Url(1)>>)]),
     ObjResponse([summary |-> Str(<<Word(1), SP, Url(1)>>),
                  focus |-> Str(<<Word(2)>>)]),
     ObjResponse([summary |-> Str(<<Word(1)>>), focus |-> Str(<<Verb(2)>>)])}

----------------------------------------------------------------------------
(* Specification *)

\* at most MaxId entries are created in a behaviour
CreateEntry ==
    /\ nextId <= MaxId
    /\ \E userId \in Users, date \in EntryDates, rating \in RatingInputs :
          createEntry(userId, date, "g1", "d1", "p1", "t1", rating)

EditEntry ==
    \E n \in 1..MaxId, updates \in EditInputs : editEntry(EntryId(n), updates)

DeleteEntry == \E n \in 1..MaxId : deleteEntry(EntryId(n))

SummarizeWeekStart ==
    \E p \in Procs, userId \in Users, weekStart \in WeekStarts,
       promptVariant \in VariantInputs :
        summarizeWeekStart(p, userId, weekStart, promptVariant)

SummarizeWeekResume ==
    \E p \in Procs, responseText \in Responses, now \in 0..MaxClock :
        summarizeWeekResume(p, responseText, now)

SummarizeWeekReject == \E p \in Procs : summarizeWeekReject(p)

Next ==
    \/ CreateEntry
    \/ EditEntry
    \/ DeleteEntry
    \/ SummarizeWeekStart
    \/ SummarizeWeekResume
    \/ SummarizeWeekReject

Spec == Init /\ [][Next]_vars

----------------------------------------------------------------------------
(* Properties of summarizeWeek *)

IsSummarize == ret.op = "summarizeWeek"

Succeeded == IsSummarize /\ ret.call.outcome = Pass

Failed == IsSummarize /\ ret.call.outcome # Pass

\* what getWeeklySummary returns for the key of the call that completed last
RetSlot == getWeeklySummary(ret.call.userId, ret.call.weekStart)

\* the step in which the suspended invocation p ends, and ret' tells how
CompletesStep(p) == run[p].pc = "awaiting" /\ run'[p].pc = "idle"

\* the step in which an invocation throws before it reaches the await
ThrowsAtStartStep ==
    run' = run /\ ret' # ret /\ IsSummarize' /\ ret'.call.outcome.v = "NoEntries"

\* the step in which the invocation p reaches the await
SuspendsStep(p) == run[p].pc = "idle" /\ run'[p].pc = "awaiting"

SameSlot(s, t) ==
    s.userId = t.userId /\ toISODate(s.weekStart) = toISODate(t.weekStart)

\* C1: no step of a summarizeWeek invocation that fails (no entries, rejected
\* call, unparsable response, V1, V2 or V3) changes the summary store, and the
\* summary its key held before is the one getWeeklySummary still returns.
C1_FailureKeepsStore ==
    [][/\ ((\E p \in Procs : CompletesStep(p) /\ Failed') \/ ThrowsAtStartStep) =>
            /\ weeklySummaries' = weeklySummaries
            /\ RetSlot' = getWeeklySummary(ret'.call.userId, ret'.call.weekStart)
            /\ ret'.before = {StoredText(w) : w \in RetSlot'}
       /\ (\E p \in Procs : SuspendsStep(p)) => weeklySummaries' = weeklySummaries
      ]_vars

\* a validation, parse or transport failure after a summary was stored for the key
C1_Witness ==
    /\ Failed
    /\ ret.call.outcome.v \in {"Transport", "Parse", "V1", "V2", "V3"}
    /\ ret.before # {}
    /\ RetSlot # {}

\* C2: every stored summary has text that passes V1, V2 for its own week and V3,
\* under its own key; the store changes only in a step of summarizeWeek whose
\* response parsed and passed the chain, and only by the upsert of that result.
C2_StoredPassedChain ==
    \A k \in DOMAIN weeklySummaries :
        LET s == weeklySummaries[k]
        IN /\ validateV1_ShapeAndLimits(StoredText(s)) = Pass
           /\ validateV2_WindowAndLinks(StoredText(s), s.weekStart) = Pass
           /\ validateV3_Actionability(StoredText(s)) = Pass
           /\ k = getWeeklySummaryKey(s.userId, s.weekStart)

\* C2: the stored summaries always pass the validation chain, and the store
\* changes only when a summarizeWeek invocation completes with success.
C2_OnlySuccessWrites ==
    [](C2_StoredPassedChain)
    /\ [][weeklySummaries' # weeklySummaries =>
            \E p \in Procs, responseText \in ret'.response :
                LET parsed == parseLLMResponse(responseText)
                IN /\ CompletesStep(p)
                   /\ Succeeded'
                   /\ parsed.ok
                   /\ validateV1_ShapeAndLimits(parsed.result) = Pass
                   /\ validateV2_WindowAndLinks(parsed.result, run[p].weekStart) = Pass
                   /\ validateV3_Actionability(parsed.result) = Pass
                   /\ \E w \in ret'.call.returned :
                         weeklySummaries' = MapSet(weeklySummaries,
                             getWeeklySummaryKey(run[p].userId, run[p].weekStart), w)
          ]_vars

C2_Witness ==
    /\ Succeeded
    /\ ret.call.returned = RetSlot
    /\ ret.call.returned # {}

\* C3: the store never holds two summaries of one user for one weekStart date;
\* after a successful synthesis the key holds exactly the returned summary, whose
\* text is the response's and whose aggregates are the invocation's.
C3_OnePerSlot ==
    \A k1, k2 \in DOMAIN weeklySummaries :
        SameSlot(weeklySummaries[k1], weeklySummaries[k2]) => k1 = k2

\* C3: at most one summary per (user, weekStart date), and a second success
\* for a slot replaces the summary the slot held.
C3_SecondReplacesFirst ==
    [](C3_OnePerSlot)
    /\ [][\A p \in Procs : CompletesStep(p) /\ Succeeded' =>
            LET got == RetSlot'
                text == parseLLMResponse(CHOOSE x \in ret'.response : TRUE).result
            IN /\ Cardinality(got) = 1
               /\ got = ret'.call.returned
               /\ \A w \in got :
                     /\ w.summary = text.summary
                     /\ w.focus = text.focus
                     /\ w.entryCount = run[p].entryCount
                     /\ w.avgRating = run[p].avgRating
                     /\ w.missingDays = run[p].missingDays
                     /\ w.sourceEntryIds = run[p].sourceEntryIds
               /\ Cardinality({k \in DOMAIN weeklySummaries' :
                                 \A w \in got : SameSlot(weeklySummaries'[k], w)}) = 1
          ]_vars

\* a second success for a key, with other text than the first, has replaced it
C3_Witness ==
    /\ Succeeded
    /\ ret.before # {}
    /\ \A b \in ret.before, w \in ret.call.returned : b # StoredText(w)
    /\ RetSlot = ret.call.returned
    /\ Cardinality(DOMAIN weeklySummaries) = 1

\* the entries of userId whose instant lies in [weekStart, weekStart + 6 days]
EntriesInWindow(userId, weekStart) ==
    {e \in MapValues(entries) :
        e.userId = userId /\ weekStart <= e.date /\ e.date <= addDays(weekStart, 6)}

\* C4: an invocation for a user without an entry in [weekStart, weekStart+6]
\* throws the no-entries error without reaching the await, and executeLLM was
\* not called in it.
C4_NoEntriesNoCall ==
    [][\A p \in Procs, userId \in Users, weekStart \in WeekStarts,
          v \in VariantInputs :
           (summarizeWeekStart(p, userId, weekStart, v)
              /\ EntriesInWindow(userId, weekStart) = {}) =>
               /\ run' = run
               /\ IsSummarize'
               /\ ret'.call.userId = userId
               /\ ret'.call.weekStart = weekStart
               /\ ret'.call.outcome = Fail("NoEntries", "")
               /\ ret'.call.calls = 0
               /\ \A i \in 1..Len(ret'.call.trace) : ret'.call.trace[i] # "call"
      ]_vars

\* the no-entries error for a user who has an entry, but none in the window
C4_Witness ==
    /\ IsSummarize
    /\ ret.call.outcome.v = "NoEntries"
    /\ ret.call.calls = 0
    /\ EntriesInWindow(ret.call.userId, ret.call.weekStart) = {}
    /\ \E e \in MapValues(entries) : e.userId = ret.call.userId

\* C5: an invocation calls executeLLM once if it found entries and never
\* otherwise; when the call is rejected or its response fails to parse or to
\* validate, the invocation ends with that failure and makes no second call.
C5_CallCounts ==
    /\ \A p \in Procs : run[p].pc = "awaiting" => run[p].calls = 1
    /\ IsSummarize =>
          ret.call.calls = (IF ret.call.outcome.v = "NoEntries" THEN 0 ELSE 1)

\* C5: the call count of every invocation is 0 or 1, and a completed
\* invocation that found entries made exactly one call, never a retry.
C5_AtMostOneCall ==
    [](C5_CallCounts)
    /\ [][\A p \in Procs :
            (run[p].pc = "awaiting" /\ run'[p] # run[p]) =>
                /\ run'[p] = IdleRun
                /\ IsSummarize'
                /\ ret'.call.pc = "done"
                /\ ret'.call.calls = 1
                /\ ret'.call.userId = run[p].userId
                /\ ret'.call.weekStart = run[p].weekStart
          ]_vars

\* a failure after the call: the call was made once and the error is the result
C5_Witness ==
    /\ Failed
    /\ ret.call.outcome.v \in {"Transport", "Parse", "V1", "V2", "V3"}
    /\ ret.call.calls = 1
    /\ \A p \in Procs : run[p].pc = "idle"

IsPrefix(s, t) == Len(s) <= Len(t) /\ SubSeq(t, 1, Len(s)) = s

FixedOrder == <<"aggregate", "prompt", "call", "parse", "V1", "V2", "V3", "upsert">>

\* C6: the steps of an invocation are an initial part of aggregate, prompt,
\* call, parse, V1, V2, V3, upsert: at the await the aggregates and the request
\* text are set and the continuation does not change them; the store is written
\* only in a step that ran the whole order, and the summary returned is then the
\* stored one.
C6_Order ==
    /\ \A p \in Procs : run[p].pc = "awaiting" =>
          /\ run[p].trace = SubSeq(FixedOrder, 1, 3)
          /\ \E q \in run[p].prompt :
                /\ q.entryCount = run[p].entryCount
                /\ q.avgRating = run[p].avgRating
                /\ q.missingDays = run[p].missingDays
          /\ run[p].entryCount = Len(run[p].sourceEntryIds)
          /\ run[p].entryCount > 0
    /\ IsSummarize =>
          /\ IsPrefix(ret.call.trace, FixedOrder)
          /\ (ret.call.outcome = Pass) = (ret.call.trace = FixedOrder)
          /\ (ret.call.outcome.v = "NoEntries") = (ret.call.trace = <<>>)
          /\ (ret.call.outcome.v \in {"Parse", "V1", "V2", "V3"}) =>
                Len(ret.call.trace) > 3

\* C6: every invocation runs aggregate, prompt, call, parse, validate, upsert
\* in that order, and what it stores was aggregated before the call.
C6_FixedStepOrder ==
    [](C6_Order)
    /\ [][/\ \A p \in Procs : CompletesStep(p) =>
               /\ ret'.call.entryCount = run[p].entryCount
               /\ ret'.call.avgRating = run[p].avgRating
               /\ ret'.call.missingDays = run[p].missingDays
               /\ ret'.call.sourceEntryIds = run[p].sourceEntryIds
               /\ ret'.call.prompt = run[p].prompt
               /\ \A w \in ret'.call.returned :
                     /\ w.entryCount = run[p].entryCount
                     /\ w.avgRating = run[p].avgRating
                     /\ w.missingDays = run[p].missingDays
                     /\ w.sourceEntryIds = run[p].sourceEntryIds
          /\ weeklySummaries' # weeklySummaries =>
               /\ ret'.call.trace = FixedOrder
               /\ RetSlot' = ret'.call.returned
               /\ ret'.call.returned # {}
      ]_vars

\* a summary stored after the week's entry changed while the call was pending
C6_Witness ==
    /\ Succeeded
    /\ ret.call.trace = FixedOrder
    /\ RetSlot = ret.call.returned
    /\ \A w \in ret.call.returned :
          w.entryCount # Cardinality(EntriesInWindow(w.userId, w.weekStart))

ValidatorsRun(trace) == SelectSeq(trace, LAMBDA x : x \in {"V1", "V2", "V3"})

\* C7: for a parsed result, the failure reported is that of the first validator
\* in the order V1, V2, V3 that the result violates, and the validators that ran
\* are those up to it; all three ran exactly when none was violated before V3.
C7_FirstFailureWins ==
    \A responseText \in ret.response :
        LET parsed == parseLLMResponse(responseText)
            bad1 == validateV1_ShapeAndLimits(parsed.result) # Pass
            bad2 == validateV2_WindowAndLinks(parsed.result, ret.call.weekStart) # Pass
            bad3 == validateV3_Actionability(parsed.result) # Pass
            ran == ValidatorsRun(ret.call.trace)
            failure == ret.call.outcome.v
        IN (IsSummarize /\ parsed.ok) =>
              /\ bad1 => (failure = "V1" /\ ran = <<"V1">>)
              /\ (~bad1 /\ bad2) => (failure = "V2" /\ ran = <<"V1", "V2">>)
              /\ (~bad1 /\ ~bad2 /\ bad3) =>
                    (failure = "V3" /\ ran = <<"V1", "V2", "V3">>)
              /\ (~bad1 /\ ~bad2 /\ ~bad3) =>
                    (failure = "ok" /\ ran = <<"V1", "V2", "V3">>)

\* a result that violates V1, V2 and V3 was rejected by V1, and V1 alone ran
C7_Witness ==
    /\ IsSummarize
    /\ ret.call.outcome.v = "V1"
    /\ ValidatorsRun(ret.call.trace) = <<"V1">>
    /\ \E responseText \in ret.response :
          LET parsed == parseLLMResponse(responseText)
          IN /\ parsed.ok
             /\ validateV2_WindowAndLinks(parsed.result, ret.call.weekStart) # Pass
             /\ validateV3_Actionability(parsed.result) # Pass

\* C8: a response object with the keys summary and focus and a further key is
\* rejected by the shape check of V1, and nothing is stored for it.
C8_ExtraKeyRejected ==
    \A responseText \in ret.response :
        (/\ IsSummarize
         /\ responseText.kind = "object"
         /\ AllowedKeys \subseteq DOMAIN responseText.obj
         /\ DOMAIN responseText.obj # AllowedKeys) =>
            /\ ret.call.outcome = Fail("V1", "extra keys")
            /\ ret.call.returned = {}
            /\ {StoredText(w) : w \in RetSlot} = ret.before

----------------------------------------------------------------------------
(* Aggregation over a journal that already holds entries: the stores that   *)
(* createEntry calls build, and one invocation at a time on them.           *)

MaxAggEntries == 2   \* entries in a journal of SpecAgg

\* the days around both ends of the window
AggDays == {FirstDay - 1, FirstDay, FirstDay + 6, FirstDay + 7}

AggDates == {Date(day, tod) : day \in AggDays, tod \in Tods}

AggRatings == {-2, 1}

\* the store after createEntry(userId, date, ..., rating) as the n-th entry
Created(store, n, userId, date, rating) ==
    MapSet(store, getDateKey(userId, date),
           [id |-> EntryId(n), userId |-> userId, date |-> date,
            gratitude |-> "g1", didToday |-> "d1", proudOf |-> "p1",
            tomorrowPlan |-> "t1", rating |-> rating])

RECURSIVE StoresOf(_)
StoresOf(n) ==
    IF n = 0 THEN {EmptyMap}
    ELSE LET smaller == StoresOf(n - 1)
             grown == {x \in smaller \X Users \X AggDates \X AggRatings :
                          /\ Cardinality(DOMAIN x[1]) = n - 1
                          /\ getDateKey(x[2], x[3]) \notin DOMAIN x[1]}
         IN smaller \cup {Created(x[1], n, x[2], x[3], x[4]) : x \in grown}

InitAgg ==
    /\ entries \in StoresOf(MaxAggEntries)
    /\ weeklySummaries = EmptyMap
    /\ nextId = Cardinality(DOMAIN entries) + 1
    /\ run = [p \in Procs |-> IdleRun]
    /\ ret = Returned(IF entries = EmptyMap THEN "new" ELSE "createEntry")

AggStart ==
    \E userId \in Users, weekStart \in WeekStarts, v \in VariantInputs :
        summarizeWeekStart("p1", userId, weekStart, v)

AggResume ==
    \E responseText \in {NoJsonResponse, ObjResponse(GoodText1)} :
        summarizeWeekResume("p1", responseText, 0)

AggReject == summarizeWeekReject("p1")

NextAgg == AggStart \/ AggResume \/ AggReject

SpecAgg == InitAgg /\ [][NextAgg]_vars

\* the seven calendar dates weekStart .. weekStart+6, in order
WindowDates(weekStart) == [i \in 1..7 |-> toISODate(weekStart) + (i - 1)]

\* the entries of userId on one of the seven calendar dates of the window
CalendarEntries(userId, weekStart) ==
    {e \in MapValues(entries) :
        /\ e.userId = userId
        /\ \E i \in 1..7 : toISODate(e.date) = WindowDates(weekStart)[i]}

\* C9: the entryCount of a synthesis is the number of the user's entries on the
\* calendar dates weekStart .. weekStart+6, whatever the times of day.
C9_EntryCountByCalendarDate ==
    /\ \A p \in Procs : run[p].pc = "awaiting" =>
          run[p].entryCount
             = Cardinality(CalendarEntries(run[p].userId, run[p].weekStart))
    /\ \A k \in DOMAIN weeklySummaries :
          LET w == weeklySummaries[k]
          IN w.entryCount = Cardinality(CalendarEntries(w.userId, w.weekStart))

HasEntryOn(userId, isoDate) ==
    \E e \in MapValues(entries) : e.userId = userId /\ toISODate(e.date) = isoDate

\* the window dates on which userId has no entry, in order
DatesWithoutEntry(userId, weekStart) ==
    SelectSeq(WindowDates(weekStart), LAMBDA d : ~HasEntryOn(userId, d))

\* C10: missingDays of a synthesis is the list of the window dates on which the
\* user has no entry, ascending and without repeats, of length 7 - entryCount.
C10_MissingDaysExact ==
    \A p \in Procs : run[p].pc = "awaiting" =>
        /\ run[p].missingDays = DatesWithoutEntry(run[p].userId, run[p].weekStart)
        /\ \A i, j \in 1..Len(run[p].missingDays) :
              i < j => run[p].missingDays[i] < run[p].missingDays[j]
        /\ Len(run[p].missingDays) = 7 - run[p].entryCount

----------------------------------------------------------------------------
(* The average rating of a week: journals of one user with an entry on each *)
(* of the first n days of the window, n = 1 .. DaysInWeek.                  *)

DaysInWeek == 7

\* the rating sequences of a week, the ratings in non-increasing order
RatingSeqs ==
    UNION {{r \in [1..n -> ValidRatings] : \A i \in 1..(n - 1) : r[i] >= r[i + 1]} :
             n \in 1..DaysInWeek}

RECURSIVE StoreOfRatings(_, _)
StoreOfRatings(r, n) ==
    IF n = 0 THEN EmptyMap
    ELSE Created(StoreOfRatings(r, n - 1), n, "u1", Date(FirstDay + n - 1, 0), r[n])

InitAvg ==
    /\ \E r \in RatingSeqs : entries = StoreOfRatings(r, Len(r))
    /\ weeklySummaries = EmptyMap
    /\ nextId = Cardinality(DOMAIN entries) + 1
    /\ run = [p \in Procs |-> IdleRun]
    /\ ret = Returned("createEntry")

AvgStart == summarizeWeekStart("p1", "u1", Date(FirstDay, 0), "base")

AvgResume == summarizeWeekResume("p1", ObjResponse(GoodText1), 0)

AvgReject == summarizeWeekReject("p1")

NextAvg == AvgStart \/ AvgResume \/ AvgReject

SpecAvg == InitAvg /\ [][NextAvg]_vars

RECURSIVE SumOver(_)
SumOver(es) ==
    IF es = {} THEN 0
    ELSE LET e == CHOOSE x \in es : TRUE IN e.rating + SumOver(es \ {e})

Abs(x) == IF x < 0 THEN -x ELSE x

\* a is an integer nearest to num / den (den > 0)
IsNearest(a, num, den) == 2 * Abs(a * den - num) <= den

\* the ratings, in date order, of the entries a summary was computed from
RatingsOf(w) ==
    [i \in 1..Len(w.sourceEntryIds) |->
        (CHOOSE e \in MapValues(entries) : e.id = w.sourceEntryIds[i]).rating]

\* C11: avgRating in hundredths is the integer nearest to 100 * sum / count of the
\* ratings of the week's entries, it lies in [-200, 200], and the ratings 2, 1
\* give 150.
C11_AvgRatingRounded ==
    \A w \in {run[p] : p \in {q \in Procs : run[q].pc = "awaiting"}}
              \cup MapValues(weeklySummaries) :
        LET es == CalendarEntries(w.userId, w.weekStart)
        IN /\ w.entryCount = Cardinality(es)
           /\ IsNearest(w.avgRating, 100 * SumOver(es), Cardinality(es))
           /\ w.avgRating >= -200 /\ w.avgRating <= 200
           /\ RatingsOf(w) = <<2, 1>> => w.avgRating = 150

\* a stored summary of a full week whose mean is not a whole number of hundredths
C11_Witness ==
    \E k \in DOMAIN weeklySummaries :
        LET w == weeklySummaries[k]
            es == CalendarEntries(w.userId, w.weekStart)
        IN /\ w.entryCount = DaysInWeek
           /\ (100 * SumOver(es)) % DaysInWeek # 0
           /\ w.avgRating < 0

----------------------------------------------------------------------------
(* The response texts: a journal with one entry of u1 in the week, one      *)
(* invocation at a time, resumed with responses that exercise the parser    *)
(* and each validator.  A plain word, a verb and a time-box atom stand for  *)
(* tokens without whitespace inside ("daily", "15min").                     *)

\* n words with one space between them
Words(n) == [i \in 1..(2 * n - 1) |-> IF i % 2 = 1 THEN Word(1) ELSE SP]

\* n words with a leading space, two spaces between them and a trailing space
Padded(n) == [i \in 1..(3 * n) |-> IF i % 3 = 2 THEN Word(1) ELSE SP]

\* an actionable focus of n words (n >= 2)
FocusOf(n) ==
    <<Verb(1), SP, Timebox(1)>>
        \o [i \in 1..(2 * (n - 2)) |-> IF i % 2 = 1 THEN SP ELSE Word(1)]

TextOf(summary, focus) == ObjResponse([summary |-> Str(summary), focus |-> Str(focus)])

WordLimitResponses ==
    {TextOf(s, f) : s \in {Words(MaxSummaryWords), Padded(MaxSummaryWords),
                           Words(MaxSummaryWords + 1)},
                    f \in {FocusOf(MaxFocusWords), FocusOf(MaxFocusWords + 1)}}

EmptyResponses ==
    {TextOf(<<>>, FocusOf(2)), TextOf(<<SP, SP>>, FocusOf(2)),
     TextOf(Words(2), <<>>), TextOf(Words(2), <<SP>>)}

\* Url(1) is "http://", Url(2) "https://", Url(3) "HTTP://", Url(4) "HtTpS://"
UrlVariants == 1..4

UrlResponses ==
    {TextOf(<<Word(1), SP, Url(u)>>, FocusOf(2)) : u \in UrlVariants}
    \cup {TextOf(Words(2), FocusOf(2) \o <<SP, Url(u)>>) : u \in UrlVariants}
    \cup {TextOf(<<Url(2)>>, <<Url(1), SP, Word(1)>>)}

\* the days at and around both ends of the window
BoundaryDays == {FirstDay - 1, FirstDay, FirstDay + 6, FirstDay + 7}

DateResponses ==
    {TextOf(<<Word(1), SP, IsoDate(d)>>, FocusOf(2)) : d \in BoundaryDays}
    \cup {TextOf(Words(2), FocusOf(2) \o <<SP, IsoDate(d)>>) : d \in BoundaryDays}

\* Verb(1) .. Verb(12) are the verbs of the vocabulary
ActionResponses ==
    {TextOf(s, f) :
        s \in {Words(2), <<Verb(3), SP, Timebox(2)>>},
        f \in {<<Verb(1)>>, <<Timebox(1)>>, <<Word(1), SP, Word(2)>>,
               <<Word(1), SP, Timebox(1), SP, Verb(12)>>}}

ParseResponses ==
    {NoJsonResponse, BadJsonResponse,
     ObjResponse(EmptyMap),
     ObjResponse([summary |-> Str(Words(2))]),
     ObjResponse([focus |-> Str(FocusOf(2))]),
     ObjResponse([summary |-> Num(5), focus |-> Str(FocusOf(2))]),
     ObjResponse([summary |-> Str(Words(2)), focus |-> Num(0)]),
     ObjResponse([summary |-> Null, focus |-> Str(FocusOf(2))]),
     ObjResponse([summary |-> Str(Words(2)), focus |-> Num(7)])}

TextResponses ==
    WordLimitResponses \cup EmptyResponses \cup UrlResponses \cup DateResponses
        \cup ActionResponses \cup ParseResponses

InitText ==
    /\ entries = Created(EmptyMap, 1, "u1", Date(FirstDay + 1, 0), 1)
    /\ weeklySummaries = EmptyMap
    /\ nextId = 2
    /\ run = [p \in Procs |-> IdleRun]
    /\ ret = Returned("createEntry")

TextStart == \E weekStart \in WeekStarts : summarizeWeekStart("p1", "u1", weekStart, "base")

TextResume == \E responseText \in TextResponses : summarizeWeekResume("p1", responseText, 0)

TextReject == summarizeWeekReject("p1")

NextText == TextStart \/ TextResume \/ TextReject

SpecText == InitText /\ [][NextText]_vars

\* the response the last invocation was resumed with parsed to {summary, focus}
RetParsed ==
    /\ IsSummarize
    /\ ret.response # {}
    /\ \A x \in ret.response : parseLLMResponse(x).ok

RetResult == parseLLMResponse(CHOOSE x \in ret.response : TRUE).result

\* the number of maximal runs of non-whitespace in s
WordCount(s) ==
    Cardinality({i \in 1..Len(s) : ~IsSpace(s[i]) /\ (i = 1 \/ IsSpace(s[i - 1]))})

NonEmpty(s) == \E i \in 1..Len(s) : ~IsSpace(s[i])

\* C12: for a parsed result with non-empty summary and focus, V1 rejects it
\* exactly when summary has more than 120 words or focus more than 60.
C12_WordLimits ==
    (RetParsed /\ NonEmpty(RetResult.summary) /\ NonEmpty(RetResult.focus)) =>
        LET over == \/ WordCount(RetResult.summary) > 120
                    \/ WordCount(RetResult.focus) > 60
        IN /\ (validateV1_ShapeAndLimits(RetResult) # Pass) <=> over
           /\ (ret.call.outcome.v = "V1") <=> over
           /\ over => ret.call.returned = {}

\* a summary of 120 words and a focus of 60, with padding, accepted and stored
C12_Witness ==
    /\ RetParsed
    /\ Succeeded
    /\ WordCount(RetResult.summary) = 120
    /\ Len(RetResult.summary) > 2 * 120
    /\ WordCount(RetResult.focus) = 60
    /\ \A w \in RetSlot : StoredText(w) = RetResult
    /\ RetSlot # {}

\* the response is an object whose summary and focus are strings
BothStrings(x) ==
    /\ x.kind = "object"
    /\ TypeofString(Prop(x.obj, "summary"))
    /\ TypeofString(Prop(x.obj, "focus"))

\* C13: a response whose summary or focus is the empty string or whitespace only
\* is rejected by the shape check of V1, not by the parser, and nothing is stored.
C13_EmptyRejectedByV1 ==
    \A x \in ret.response :
        (/\ IsSummarize
         /\ BothStrings(x)
         /\ ~NonEmpty(x.obj.summary.s) \/ ~NonEmpty(x.obj.focus.s)) =>
            /\ ret.call.outcome.v = "V1"
            /\ ret.call.outcome.why \in {"summary empty", "focus empty"}
            /\ ret.call.returned = {}
            /\ {StoredText(w) : w \in RetSlot} = ret.before

HasUrl(s) == \E i \in 1..Len(s) : s[i].k = "url"

\* C14: a result with http:// or https://, in any letter case, in summary or in
\* focus fails V2; the invocation is rejected (by V2 when V1 passes) and stores
\* nothing.
C14_UrlRejected ==
    (RetParsed /\ (HasUrl(RetResult.summary) \/ HasUrl(RetResult.focus))) =>
        /\ validateV2_WindowAndLinks(RetResult, ret.call.weekStart) = Fail("V2", "url")
        /\ validateV1_ShapeAndLimits(RetResult) = Pass =>
              ret.call.outcome = Fail("V2", "url")
        /\ ret.call.outcome.v \in {"V1", "V2"}
        /\ ret.call.returned = {}
        /\ {StoredText(w) : w \in RetSlot} = ret.before

\* an upper-case URL in an otherwise actionable focus, rejected by V2 while the
\* slot keeps the summary it held
C14_Witness ==
    /\ RetParsed
    /\ ~HasUrl(RetResult.summary)
    /\ \E i \in 1..Len(RetResult.focus) : RetResult.focus[i] \in {Url(3), Url(4)}
    /\ validateV3_Actionability(RetResult) = Pass
    /\ ret.call.outcome = Fail("V2", "url")
    /\ ret.before # {}
    /\ {StoredText(w) : w \in RetSlot} = ret.before

\* the YYYY-MM-DD tokens of summary and focus
DateTokens(result) ==
    {result.summary[i].v : i \in {j \in 1..Len(result.summary) :
                                    result.summary[j].k = "date"}}
    \cup {result.focus[i].v : i \in {j \in 1..Len(result.focus) :
                                       result.focus[j].k = "date"}}

\* d is one of the calendar dates weekStart .. weekStart+6
InWindow(d, weekStart) ==
    toISODate(weekStart) <= d /\ d <= toISODate(weekStart) + (DaysInWeek - 1)

\* C15: for a result without URL that passes V1, V2 accepts exactly when every
\* YYYY-MM-DD token is one of the calendar dates weekStart .. weekStart+6,
\* whatever the time of day of weekStart.
C15_DateWindow ==
    (/\ RetParsed
     /\ validateV1_ShapeAndLimits(RetResult) = Pass
     /\ ~HasUrl(RetResult.summary) /\ ~HasUrl(RetResult.focus)) =>
        LET inside == \A d \in DateTokens(RetResult) : InWindow(d, ret.call.weekStart)
        IN /\ (validateV2_WindowAndLinks(RetResult, ret.call.weekStart) = Pass)
                 <=> inside
           /\ (ret.call.outcome.v = "V2") <=> ~inside

HasKind(s, kind) == \E i \in 1..Len(s) : s[i].k = kind

\* C16: V3 accepts a result exactly when its focus holds a verb of the
\* vocabulary and a time-box token; what summary holds does not count.
C16_Actionability ==
    RetParsed =>
        LET actionable == /\ HasKind(RetResult.focus, "verb")
                          /\ HasKind(RetResult.focus, "timebox")
        IN /\ (validateV3_Actionability(RetResult) = Pass) <=> actionable
           /\ (/\ validateV1_ShapeAndLimits(RetResult) = Pass
               /\ validateV2_WindowAndLinks(RetResult, ret.call.weekStart) = Pass) =>
                 /\ Succeeded <=> actionable
                 /\ ~actionable => ret.call.outcome.v = "V3" /\ ret.call.returned = {}

\* verb and time-box in summary, only a verb in focus: rejected by V3
C16_Witness ==
    /\ RetParsed
    /\ HasKind(RetResult.summary, "verb")
    /\ HasKind(RetResult.summary, "timebox")
    /\ HasKind(RetResult.focus, "verb")
    /\ ~HasKind(RetResult.focus, "timebox")
    /\ ret.call.outcome = Fail("V3", "no timebox")
    /\ ret.call.trace = <<"aggregate", "prompt", "call", "parse", "V1", "V2", "V3">>

\* Repeated evaluation of the chain: responses for each outcome of the chain
ChainResponses ==
    {TextOf(Words(2), FocusOf(2)),
     TextOf(<<Word(1), SP, IsoDate(FirstDay)>>, FocusOf(3)),
     TextOf(<<SP>>, FocusOf(2)),
     TextOf(<<Word(1), SP, Url(1)>>, FocusOf(2)),
     TextOf(<<Word(1), SP, IsoDate(FirstDay + 7)>>, FocusOf(2)),
     TextOf(Words(2), <<Verb(1)>>),
     TextOf(Words(2), <<Timebox(1)>>)}

ChainResume ==
    \E responseText \in ChainResponses : summarizeWeekResume("p1", responseText, 0)

NextChain == TextStart \/ ChainResume \/ TextReject

SpecChain == InitText /\ [][NextChain]_vars

\* the parsed results of these responses
ChainInputs == {parseLLMResponse(x).result : x \in ChainResponses}

Unparsable(x) ==
    \/ x.kind \in {"nojson", "badjson"}
    \/ /\ x.kind = "object"
       /\ \/ ~(AllowedKeys \subseteq DOMAIN x.obj)
          \/ ~TypeofString(Prop(x.obj, "summary"))
          \/ ~TypeofString(Prop(x.obj, "focus"))

\* C18: an invocation resumed with such a response fails in the parser, before
\* any validator has run, and stores nothing.
C18_ParseFailure ==
    \A x \in ret.response :
        (IsSummarize /\ Unparsable(x)) =>
            /\ ~parseLLMResponse(x).ok
            /\ ret.call.outcome.v = "Parse"
            /\ ret.call.trace = <<"aggregate", "prompt", "call", "parse">>
            /\ ret.call.returned = {}
            /\ {StoredText(w) : w \in RetSlot} = ret.before

\* a response whose summary is a number, rejected by the parser while the slot
\* keeps the summary it held
C18_Witness ==
    /\ IsSummarize
    /\ \E x \in ret.response :
          /\ x.kind = "object"
          /\ AllowedKeys \subseteq DOMAIN x.obj
          /\ Truthy(x.obj.summary)
          /\ ~TypeofString(x.obj.summary)
    /\ ret.call.outcome = Fail("Parse", "NotString")
    /\ ret.before # {}
    /\ {StoredText(w) : w \in RetSlot} = ret.before

----------------------------------------------------------------------------
(* Two invocations at a time on a journal with an entry of each user: the   *)
(* same or different users, the same or different weeks.                    *)

ConcWeekStarts == {Date(FirstDay, 0), Date(FirstDay + 1, 0)}

ConcResponses == {NoJsonResponse, ObjResponse(GoodText1), ObjResponse(GoodText2)}

InitConc ==
    /\ entries = Created(Created(EmptyMap, 1, "u1", Date(FirstDay + 1, 0), 1),
                         2, "u2", Date(FirstDay + 2, 0), -2)
    /\ weeklySummaries = EmptyMap
    /\ nextId = 3
    /\ run = [p \in Procs |-> IdleRun]
    /\ ret = Returned("createEntry")

ConcStart ==
    \E p \in Procs, userId \in Users, weekStart \in ConcWeekStarts :
        summarizeWeekStart(p, userId, weekStart, "base")

ConcResume ==
    \E p \in Procs, responseText \in ConcResponses :
        summarizeWeekResume(p, responseText, 0)

ConcReject == \E p \in Procs : summarizeWeekReject(p)

NextConc == ConcStart \/ ConcResume \/ ConcReject

SpecConc == InitConc /\ [][NextConc]_vars

Slots == Users \X ConcWeekStarts

SlotOf(r) == <<r.userId, toISODate(r.weekStart)>>

\* w is what summarizeWeek(userId, weekStart) stores when it runs alone on the
\* journal and is answered with responseText
StoredAlone(w, userId, weekStart, responseText) ==
    LET weekEnd == addDays(weekStart, DaysInWeek - 1)
        own == {e \in MapValues(entries) :
                   e.userId = userId /\ weekStart <= e.date /\ e.date <= weekEnd}
        text == parseLLMResponse(responseText).result
    IN /\ w.userId = userId /\ w.weekStart = weekStart /\ w.weekEnd = weekEnd
       /\ w.entryCount = Cardinality(own)
       /\ IsNearest(w.avgRating, 100 * SumOver(own), Cardinality(own))
       /\ w.missingDays = DatesWithoutEntry(userId, weekStart)
       /\ w.summary = text.summary /\ w.focus = text.focus
       /\ w.sourceEntryIds = SourceEntryIds(SortByDate(own))

C19_StoredAsAlone ==
    \A s \in Slots :
        \A w \in getWeeklySummary(s[1], s[2]) :
            /\ SlotOf(w) = <<s[1], toISODate(s[2])>>
            /\ \E x \in ConcResponses : StoredAlone(w, w.userId, w.weekStart, x)

\* C19: a step of an invocation leaves what getWeeklySummary returns for every
\* other (user, weekStart) and the other invocation as they were, and every
\* stored summary is the one its invocation stores when it runs alone.
C19_DifferentKeysIndependent ==
    [](C19_StoredAsAlone)
    /\ [][\A p \in Procs :
            run'[p] # run[p] =>
                /\ \A q \in Procs \ {p} : run'[q] = run[q]
                /\ \A s \in Slots :
                      <<s[1], toISODate(s[2])>>
                            # SlotOf(IF run[p].pc = "awaiting" THEN run[p] ELSE run'[p])
                         => getWeeklySummary(s[1], s[2])' = getWeeklySummary(s[1], s[2])
                /\ (CompletesStep(p) /\ Succeeded') =>
                      /\ Cardinality(RetSlot') = 1
                      /\ \A w \in RetSlot', x \in ret'.response :
                            StoredAlone(w, run[p].userId, run[p].weekStart, x)
          ]_vars

\* an invocation has stored its summary while the other, for another key, is
\* suspended, and that other key still holds the summary stored earlier
C19_Witness ==
    /\ Succeeded
    /\ RetSlot = ret.call.returned
    /\ \E q \in Procs :
          /\ run[q].pc = "awaiting"
          /\ SlotOf(run[q]) # SlotOf(ret.call)
          /\ run[q].userId = ret.call.userId
          /\ \E w \in getWeeklySummary(run[q].userId, run[q].weekStart) :
                /\ SlotOf(w) = SlotOf(run[q])
                /\ StoredText(w) # StoredText(CHOOSE v \in RetSlot : TRUE)

----------------------------------------------------------------------------
(* Two invocations for one key (under Spec, where entries change meanwhile) *)

\* w is the complete summary of the suspended invocation r answered with x
WholeSummaryOf(w, r, x) ==
    LET text == parseLLMResponse(x).result
    IN /\ w.userId = r.userId /\ w.weekStart = r.weekStart /\ w.weekEnd = r.weekEnd
       /\ w.entryCount = r.entryCount /\ w.avgRating = r.avgRating
       /\ w.missingDays = r.missingDays /\ w.sourceEntryIds = r.sourceEntryIds
       /\ w.summary = text.summary /\ w.focus = text.focus
       /\ w.generatedAt \in 0..MaxClock

\* the invocation p shares its key with the other suspended invocation, or with
\* the successful invocation that completed last
SharesKey(p) ==
    \/ \E q \in Procs \ {p} : run[q].pc = "awaiting" /\ SlotOf(run[q]) = SlotOf(run[p])
    \/ Succeeded /\ SlotOf(ret.call) = SlotOf(run[p])

\* C20: when an invocation that shares its key with another one stores, the key
\* holds exactly one summary and it is that invocation's whole summary, text
\* and aggregates; the invocation still suspended is left as it was.
C20_LastUpsertWins ==
    [][\A p \in Procs :
          (CompletesStep(p) /\ Succeeded' /\ SharesKey(p)) =>
              /\ Cardinality({k \in DOMAIN weeklySummaries' :
                                SlotOf(weeklySummaries'[k]) = SlotOf(run[p])}) = 1
              /\ Cardinality(RetSlot') = 1
              /\ \A w \in RetSlot', x \in ret'.response : WholeSummaryOf(w, run[p], x)
              /\ \A q \in Procs \ {p} : run'[q] = run[q]
      ]_vars

\* the first of two suspended invocations for one key has stored its summary;
\* the other, with another rating average, is still suspended
C20_Witness ==
    /\ Succeeded
    /\ RetSlot = ret.call.returned
    /\ \E q \in Procs :
          /\ run[q].pc = "awaiting"
          /\ SlotOf(run[q]) = SlotOf(ret.call)
          /\ \A w \in RetSlot : w.avgRating # run[q].avgRating

----------------------------------------------------------------------------
(* The journal with several entries: two users, two calendar days of the    *)
(* week (the first at two times of day), entries created, edited and        *)
(* deleted while one invocation at a time runs.                             *)

MaxJournalId == 2    \* at most MaxJournalId entries are created in a behaviour

JournalDates == {Date(FirstDay, 0), Date(FirstDay, MaxTod), Date(FirstDay + 1, 0)}

JournalRatings == {1, -2, 3}

JournalResponses == {NoJsonResponse, ObjResponse(GoodText1)}

\* the calls that throw are always possible
JournalCreate ==
    \E userId \in Users, date \in JournalDates, rating \in JournalRatings :
        /\ \/ nextId <= MaxJournalId
           \/ rating \notin ValidRatings
           \/ getDateKey(userId, date) \in DOMAIN entries
        /\ createEntry(userId, date, "g1", "d1", "p1", "t1", rating)

JournalEdit ==
    \E n \in 1..MaxJournalId, updates \in EditInputs : editEntry(EntryId(n), updates)

JournalDelete == \E n \in 1..MaxJournalId : deleteEntry(EntryId(n))

JournalStart ==
    \E userId \in Users : summarizeWeekStart("p1", userId, Date(FirstDay, 0), "base")

JournalResume ==
    \E responseText \in JournalResponses : summarizeWeekResume("p1", responseText, 0)

JournalReject == summarizeWeekReject("p1")

NextJournal ==
    \/ JournalCreate
    \/ JournalEdit
    \/ JournalDelete
    \/ JournalStart
    \/ JournalResume
    \/ JournalReject

SpecJournal == Init /\ [][NextJournal]_vars

\* the entries of the journal that the invocation r selects
OwnEntries(r) ==
    {e \in MapValues(entries) :
        e.userId = r.userId /\ r.weekStart <= e.date /\ e.date <= r.weekEnd}

\* the aggregates of r are those of the journal as it is
AggregatesRead(r) ==
    LET own == OwnEntries(r)
    IN /\ r.entryCount = Cardinality(own)
       /\ IsNearest(r.avgRating, 100 * SumOver(own), Cardinality(own))
       /\ r.missingDays =
             SelectSeq(WindowDates(r.weekStart),
                       LAMBDA d : \A e \in own : toISODate(e.date) # d)
       /\ Len(r.sourceEntryIds) = Cardinality(own)
       /\ {r.sourceEntryIds[i] : i \in 1..Len(r.sourceEntryIds)} = {e.id : e \in own}

SameAggregates(w, r) ==
    /\ w.entryCount = r.entryCount
    /\ w.avgRating = r.avgRating
    /\ w.missingDays = r.missingDays
    /\ w.sourceEntryIds = r.sourceEntryIds

\* C21: the aggregates of an invocation are those of the journal when it read
\* it before the call, they stay as they are while it is suspended, whatever is
\* created, edited or deleted meanwhile, and they are what it stores.
C21_SnapshotStored ==
    [][\A p \in Procs :
          /\ SuspendsStep(p) => AggregatesRead(run'[p])
          /\ (run[p].pc = "awaiting" /\ run'[p].pc = "awaiting") => run'[p] = run[p]
          /\ (CompletesStep(p) /\ Succeeded') =>
                /\ RetSlot' # {}
                /\ \A w \in RetSlot' : SameAggregates(w, run[p])
      ]_vars

\* a summary just stored that lacks an entry of the week created during the call
\* and whose average differs from that of the journal as it is now
C21_Witness ==
    /\ Succeeded
    /\ RetSlot = ret.call.returned
    /\ \A w \in RetSlot :
          /\ \E e \in OwnEntries(w) :
                \A i \in 1..Len(w.sourceEntryIds) : w.sourceEntryIds[i] # e.id
          /\ ~IsNearest(w.avgRating, 100 * SumOver(OwnEntries(w)),
                        Cardinality(OwnEntries(w)))

SameDay(e, f) == e.userId = f.userId /\ toISODate(e.date) = toISODate(f.date)

C22_OnePerDay ==
    \A k1, k2 \in DOMAIN entries : SameDay(entries[k1], entries[k2]) => k1 = k2

\* C22: the journal never holds two entries of one user on one calendar date;
\* no step puts another entry in the place of one that is there, and a
\* createEntry refused because the day has an entry leaves the journal as it was.
C22_OneEntryPerUserDate ==
    [](C22_OnePerDay)
    /\ [][/\ \A k \in DOMAIN entries \cap DOMAIN entries' :
               /\ entries'[k].id = entries[k].id
               /\ entries'[k].date = entries[k].date
               /\ entries'[k].userId = entries[k].userId
          /\ (ret' # ret /\ ret' = Threw("createEntry", "exists")) =>
               /\ entries' = entries
               /\ nextId' = nextId
               /\ entries # EmptyMap
          ]_vars

\* a second createEntry for a day was refused: the journal holds two entries,
\* one of them on the first day at the later time of day
C22_Witness ==
    /\ ret = Threw("createEntry", "exists")
    /\ Cardinality(DOMAIN entries) = 2
    /\ \E e \in MapValues(entries) : e.date = Date(FirstDay, MaxTod)
    /\ nextId = 3

C23_RatingsValid ==
    \A e \in MapValues(entries) :
        /\ e.rating \in {-2, -1, 0, 1, 2}
        /\ e.gratitude = "g1"

\* C23: every stored rating is in {-2,-1,0,1,2}; a createEntry or editEntry
\* refused for its rating leaves the journal as it was, so the gratitude text
\* passed along with the refused rating is never stored.
C23_RatingConstrained ==
    [](C23_RatingsValid)
    /\ [][(/\ ret' # ret
           /\ ret' \in {Threw("createEntry", "rating"), Threw("editEntry", "rating")}) =>
              /\ entries' = entries
              /\ nextId' = nextId
          ]_vars

\* an edit with rating 5 and another gratitude text was refused after a valid
\* edit of the rating
C23_Witness ==
    /\ ret = Threw("editEntry", "rating")
    /\ \E e \in MapValues(entries) : e.rating = -1 /\ e.gratitude = "g1"


----------------------------------------------------------------------------
(* One invocation whose external call does return.  The code puts no bound  *)
(* on the call; the fairness condition is the hypothesis that the promise   *)
(* of executeLLM settles, by fulfilment or by rejection.                    *)

LiveCreate ==
    /\ nextId <= MaxId
    /\ \E userId \in Users, date \in JournalDates :
          createEntry(userId, date, "g1", "d1", "p1", "t1", 1)

LiveDelete == \E n \in 1..MaxId : deleteEntry(EntryId(n))

LiveStart ==
    \E userId \in Users, weekStart \in WeekStarts :
        summarizeWeekStart("p1", userId, weekStart, "base")

LiveResume ==
    \E responseText \in JournalResponses : summarizeWeekResume("p1", responseText, 0)

LiveReject == summarizeWeekReject("p1")

NextLive == LiveCreate \/ LiveDelete \/ LiveStart \/ LiveResume \/ LiveReject

SpecLive == Init /\ [][NextLive]_vars /\ WF_vars(LiveResume \/ LiveReject)

C24_Ended ==
    /\ run["p1"].pc = "idle"
    /\ IsSummarize
    /\ \/ Succeeded /\ RetSlot = ret.call.returned
       \/ Failed

\* C24: an invocation suspended at the external call ends once the call
\* returns, with its summary stored or with an error; as long as the call has
\* not returned the invocation stays where it is and the summary store is not
\* written, and it is written only by the step that ends a successful call.
C24_BlocksOnlyAtCall ==
    /\ (run["p1"].pc = "awaiting") ~> C24_Ended
    /\ [][/\ (run["p1"].pc = "awaiting" /\ run'["p1"].pc = "awaiting") =>
                 /\ run' = run
                 /\ weeklySummaries' = weeklySummaries
          /\ weeklySummaries' # weeklySummaries =>
                 /\ CompletesStep("p1")
                 /\ Succeeded'
          /\ run["p1"].pc = "idle" => run'["p1"].pc \in {"idle", "awaiting"}
         ]_vars

\* the call of a suspended invocation was rejected, and the store still holds
\* what an earlier invocation wrote
C24_Witness ==
    /\ Failed
    /\ ret.call.outcome.v = "Transport"
    /\ run["p1"].pc = "idle"
    /\ weeklySummaries # EmptyMap


C25_IdsWellFormed ==
    \A w \in MapValues(weeklySummaries) :
        /\ Len(w.sourceEntryIds) = w.entryCount
        /\ w.entryCount >= 1
        /\ \A i, j \in 1..Len(w.sourceEntryIds) :
              w.sourceEntryIds[i] = w.sourceEntryIds[j] => i = j

\* C25: the sourceEntryIds of a stored summary are the ids of the entries the
\* invocation counted, each once, the entry of the earlier date first; there
\* are entryCount of them and at least one.
C25_SourceIdsInDateOrder ==
    [](C25_IdsWellFormed)
    /\ [][\A p \in Procs :
             /\ SuspendsStep(p) =>
                   LET r == run'[p]
                       ids == r.sourceEntryIds
                   IN /\ {ids[i] : i \in 1..Len(ids)} = {e.id : e \in OwnEntries(r)}
                      /\ Len(ids) = r.entryCount
                      /\ \A i, j \in 1..Len(ids) :
                            i < j => \E e, f \in OwnEntries(r) :
                                        /\ e.id = ids[i]
                                        /\ f.id = ids[j]
                                        /\ e.date < f.date
             /\ (CompletesStep(p) /\ Succeeded') =>
                   \A w \in RetSlot' : w.sourceEntryIds = run[p].sourceEntryIds
         ]_vars

\* a stored summary of two entries of which the later one was created first
C25_Witness ==
    \E w \in MapValues(weeklySummaries) :
        /\ w.sourceEntryIds = <<EntryId(2), EntryId(1)>>
        /\ w.entryCount = 2


----------------------------------------------------------------------------
(* Invocations of the four prompt variants over one journal: entries are   *)
(* created only while no invocation is suspended, so that two invocations  *)
(* that overlap, or follow one another with no entry operation between     *)
(* them, read the same entries.                                            *)

VariantCreate ==
    /\ nextId <= MaxId
    /\ \A p \in Procs : run[p].pc = "idle"
    /\ \E userId \in Users, date \in JournalDates :
          createEntry(userId, date, "g1", "d1", "p1", "t1", 1)

VariantStart ==
    \E p \in Procs, userId \in Users, promptVariant \in PromptVariants :
        summarizeWeekStart(p, userId, Date(FirstDay, 0), promptVariant)

\* the response whose focus has no imperative verb and no timebox
PlainFocusResponse ==
    ObjResponse([summary |-> Str(<<Word(1)>>), focus |-> Str(<<Word(2)>>)])

VariantResponses ==
    {NoJsonResponse,
     ObjResponse([summary |-> Str(<<Word(1)>>)]),
     ObjResponse([summary |-> Str(<<Word(1), SP, Url(1)>>), focus |-> Str(GoodFocus)]),
     PlainFocusResponse,
     ObjResponse(GoodText1)}

VariantResume ==
    \E p \in Procs, responseText \in VariantResponses :
        summarizeWeekResume(p, responseText, 0)

VariantReject == \E p \in Procs : summarizeWeekReject(p)

NextVariant == VariantCreate \/ VariantStart \/ VariantResume \/ VariantReject

SpecVariant == Init /\ [][NextVariant]_vars

\* the invocation r and the call that completed last had the same user, week,
\* entries and external response (or rejection)
SameInputsAsLast(r) ==
    /\ IsSummarize
    /\ ret.call.calls >= 1
    /\ ret.call.userId = r.userId
    /\ ret.call.weekStart = r.weekStart
    /\ ret'.response = ret.response
    /\ (ret'.call.outcome.v = "Transport") = (ret.call.outcome.v = "Transport")

WithoutAddendum(prompts) == {[pr EXCEPT !.addendum = ""] : pr \in prompts}

\* C26: two invocations that differ at most in the prompt variant end alike:
\* the same validators run, the same one fails or none, the same record is
\* returned and the store is the same afterwards; their prompts differ in the
\* variant's addendum and in nothing else; a focus without imperative verb and
\* timebox is refused by V3 under every variant.
C26_VariantOnlyInPrompt ==
    [][\A q \in Procs :
          /\ (CompletesStep(q) /\ SameInputsAsLast(run[q])) =>
                /\ ret'.call.outcome = ret.call.outcome
                /\ ret'.call.trace = ret.call.trace
                /\ ret'.call.returned = ret.call.returned
                /\ weeklySummaries' = weeklySummaries
                /\ Succeeded' => RetSlot' = ret'.call.returned
                /\ WithoutAddendum(run[q].prompt) = WithoutAddendum(ret.call.prompt)
                /\ (run[q].variant # ret.call.variant) =>
                      run[q].prompt # ret.call.prompt
          /\ (CompletesStep(q) /\ ret'.response = {PlainFocusResponse}) =>
                /\ ret'.call.outcome.v = "V3"
                /\ weeklySummaries' = weeklySummaries
      ]_vars

\* V3 has just refused the response under the base variant after it refused the
\* same response for the same user under another one still shown in the prompt
\* of the suspended invocation
C26_Witness ==
    /\ Failed
    /\ ret.call.outcome.v = "V3"
    /\ ret.call.variant = "base"
    /\ ret.response = {PlainFocusResponse}
    /\ run["p2"].pc = "awaiting"
    /\ run["p2"].variant = "actionable"
    /\ run["p2"].userId = ret.call.userId
    /\ run["p2"].prompt # ret.call.prompt


EntryOps == {"createEntry", "editEntry", "deleteEntry"}

\* C27: a step that changes the entries or the id counter is a createEntry,
\* editEntry or deleteEntry and leaves the summary store and the suspended
\* invocations as they are; a step of summarizeWeek, whatever its outcome,
\* leaves the entries and the id counter as they are.
C27_Frames ==
    [][/\ (entries' # entries \/ nextId' # nextId) =>
             /\ weeklySummaries' = weeklySummaries
             /\ run' = run
             /\ ret'.op \in EntryOps
       /\ (weeklySummaries' # weeklySummaries \/ run' # run) =>
             /\ entries' = entries
             /\ nextId' = nextId
             /\ \E p \in Procs : SuspendsStep(p) \/ CompletesStep(p)
       /\ (ret' # ret /\ ret'.op \in EntryOps) =>
             (weeklySummaries' = weeklySummaries /\ run' = run)
       /\ (ret' # ret /\ IsSummarize') => (entries' = entries /\ nextId' = nextId)
      ]_vars

\* a summary stays stored after both of its source entries were deleted
C27_Witness ==
    /\ ret = Returned("deleteEntry")
    /\ entries = EmptyMap
    /\ \E w \in MapValues(weeklySummaries) : w.entryCount = 2


C28_IdsIssued ==
    /\ \A e \in MapValues(entries) : \E n \in 1..(nextId - 1) : e.id = EntryId(n)
    /\ \A k1, k2 \in DOMAIN entries : entries[k1].id = entries[k2].id => k1 = k2
    /\ \A n \in 1..nextId : Cardinality(findEntryById(EntryId(n))) <= 1

\* C28: every stored id was issued below the counter and belongs to one entry;
\* the counter never goes back, a created entry takes the counter's value as
\* its id and advances it by one, a refused createEntry leaves it, and an
\* editEntry or deleteEntry changes or removes at most one entry.  Hence no id
\* is issued twice, also not after its entry was deleted.
C28_IdsUnique ==
    [](C28_IdsIssued)
    /\ [][/\ nextId' >= nextId
          /\ \A k \in DOMAIN entries' \ DOMAIN entries :
                /\ entries'[k].id = EntryId(nextId)
                /\ nextId' = nextId + 1
          /\ nextId' # nextId =>
                /\ Cardinality(DOMAIN entries' \ DOMAIN entries) = 1
                /\ \A k \in DOMAIN entries : k \in DOMAIN entries' /\ entries'[k] = entries[k]
          /\ (ret' # ret /\ ret'.op = "createEntry" /\ ret'.call.outcome # Pass) =>
                nextId' = nextId
          /\ Cardinality({k \in DOMAIN entries :
                             k \notin DOMAIN entries' \/ entries'[k] # entries[k]}) <= 1
         ]_vars

\* the first entry was deleted and the entry created after it has the next id
C28_Witness ==
    /\ ret = Returned("createEntry")
    /\ nextId = 3
    /\ {e.id : e \in MapValues(entries)} = {EntryId(2)}


SlotTaken(userId, date) ==
    \E e \in MapValues(entries) :
        e.userId = userId /\ toISODate(e.date) = toISODate(date)

\* C29: a deleteEntry that returns removes one entry, the others stay as they
\* were, and the (user, date) slot of the removed entry is free; a createEntry
\* with a valid rating is refused only when its slot is taken, so it succeeds
\* on a freed slot; an invocation of summarizeWeek that starts afterwards
\* counts stored entries only.
C29_DeleteFreesSlot ==
    [][/\ (ret' # ret /\ ret' = Returned("deleteEntry")) =>
             Cardinality(DOMAIN entries \ DOMAIN entries') = 1
       /\ \A k \in DOMAIN entries \ DOMAIN entries' :
             /\ ret' = Returned("deleteEntry")
             /\ DOMAIN entries' = DOMAIN entries \ {k}
             /\ \A j \in DOMAIN entries' : entries'[j] = entries[j]
             /\ \A e \in MapValues(entries') : ~SameDay(e, entries[k])
             /\ nextId' = nextId
       /\ \A userId \in Users, date \in JournalDates :
             (/\ ret'.op = "createEntry"
              /\ entries' = entries
              /\ createEntry(userId, date, "g1", "d1", "p1", "t1", 1)) =>
                 SlotTaken(userId, date)
       /\ \A p \in Procs :
             SuspendsStep(p) =>
                /\ \A i \in 1..Len(run'[p].sourceEntryIds) :
                      findEntryById(run'[p].sourceEntryIds[i]) # {}
                /\ run'[p].entryCount = Cardinality(OwnEntries(run'[p]))
      ]_vars

\* the first entry was summarized and then deleted; the entry created on its
\* calendar day is the only one the invocation now suspended has counted
C29_Witness ==
    /\ run["p1"].pc = "awaiting"
    /\ run["p1"].sourceEntryIds = <<EntryId(2)>>
    /\ Cardinality(DOMAIN entries) = 1
    /\ \E w \in MapValues(weeklySummaries) :
          /\ w.userId = run["p1"].userId
          /\ w.sourceEntryIds = <<EntryId(1)>>
          /\ w.missingDays = run["p1"].missingDays


\* the entries of the user of r
EntriesOfUser(r) == {e \in MapValues(entries) : e.userId = r.userId}

C30_StoredUnderOwnKey ==
    \A k \in DOMAIN weeklySummaries :
        k = getWeeklySummaryKey(weeklySummaries[k].userId, weeklySummaries[k].weekStart)

\* C30: the aggregates of an invocation for a user are those of that user's
\* entries alone, whatever entries other users have in the window; its summary
\* carries the user's id, is stored under the user's key, and the summaries of
\* other users stay as they were.
C30_OwnEntriesOnly ==
    [](C30_StoredUnderOwnKey)
    /\ [][\A p \in Procs :
             /\ SuspendsStep(p) =>
                   LET r == run'[p]
                       mine == {e \in EntriesOfUser(r) :
                                   r.weekStart <= e.date /\ e.date <= r.weekEnd}
                   IN /\ r.entryCount = Cardinality(mine)
                      /\ IsNearest(r.avgRating, 100 * SumOver(mine), Cardinality(mine))
                      /\ {r.sourceEntryIds[i] : i \in 1..Len(r.sourceEntryIds)} =
                            {e.id : e \in mine}
                      /\ \A d \in toISODate(r.weekStart)..(toISODate(r.weekStart) + 6) :
                            (\E i \in 1..Len(r.missingDays) : r.missingDays[i] = d)
                               <=> (\A e \in mine : toISODate(e.date) # d)
             /\ (CompletesStep(p) /\ Succeeded') =>
                   /\ \A w \in RetSlot' : w.userId = run[p].userId
                   /\ getWeeklySummaryKey(run[p].userId, run[p].weekStart)
                         \in DOMAIN weeklySummaries'
                   /\ \A k \in DOMAIN weeklySummaries :
                         weeklySummaries[k].userId # run[p].userId =>
                            /\ k \in DOMAIN weeklySummaries'
                            /\ weeklySummaries'[k] = weeklySummaries[k]
         ]_vars

\* the summary of u1 just stored counts one entry and reports as missing the
\* day on which u2, whose summary is stored beside it, has an entry
C30_Witness ==
    /\ Succeeded
    /\ ret.call.userId = "u1"
    /\ \A w \in RetSlot :
          /\ w.userId = "u1"
          /\ w.entryCount = 1
          /\ \E e \in MapValues(entries) :
                /\ e.userId = "u2"
                /\ e.id = EntryId(1)
                /\ \E i \in 1..Len(w.missingDays) : w.missingDays[i] = toISODate(e.date)
    /\ \E v \in MapValues(weeklySummaries) : v.userId = "u2"

====
